---- MODULE Spec2Model ----
(***************************************************************************)
(* Model of src/tracker.py: the video loop of the 2D motion capture tool.  *)
(* One iteration reads a frame, updates the trackers and prints the        *)
(* calibrated positions and pairwise distances, polls one key and runs     *)
(* that key's handler.                                                     *)
(*                                                                         *)
(* In Spec, Python floats are modelled as exact rationals <<n, d>> in      *)
(* lowest terms with d > 0; print's "%.4f" formatting is not modelled, a   *)
(* printed line is the tuple of values handed to print. FloatSpec runs the *)
(* calibration and the position computation on IEEE-754 doubles, for the   *)
(* properties that depend on rounding.                                     *)
(***************************************************************************)
EXTENDS Integers, Sequences, FiniteSets, TLC

\* ------------------------------------------------------------------ bounds
\* Length of the frame stream: vs.read() yields at most MaxFrames frames.
MaxFrames == 5
\* The 's' key is not pressed any more once MaxTracks objects are tracked.
MaxTracks == 4
\* The 'c' key is not pressed any more after MaxCalibrations calibrations.
MaxCalibrations == 1

\* Python's None, and a name that has not been assigned yet. Every value that
\* can be None is a tuple: a box (x, y, w, h), an FPS object <<numFrames>>, a
\* report <<success, lines>>.
None == <<>>
Unset == <<>>

\* -------------------------------------------------------------- arithmetic
Abs(n) == IF n < 0 THEN -n ELSE n

RECURSIVE GCD(_, _)
GCD(a, b) == IF b = 0 THEN a ELSE GCD(b, a % b)

\* The rational n/d in lowest terms, d # 0.
Q(n, d) ==
    LET g == GCD(Abs(n), Abs(d))
        s == IF d < 0 THEN -1 ELSE 1
    IN  <<(s * n) \div g, (s * d) \div g>>

RAdd(p, q) == Q(p[1] * q[2] + q[1] * p[2], p[2] * q[2])
RSub(p, q) == Q(p[1] * q[2] - q[1] * p[2], p[2] * q[2])
RMul(p, q) == Q(p[1] * q[1], p[2] * q[2])
\* p / q, q # 0 (Python raises ZeroDivisionError before dividing by 0).
RDivFloor(p, q) ==
    LET r == Q(p[1] * q[2], p[2] * q[1])
    IN  Q(r[1] \div r[2], 1)
RDiv(p, q) == Q(p[1] * q[2], p[2] * q[1])

\* int(v): truncation toward zero.
PyInt(v) == IF v[1] >= 0 THEN v[1] \div v[2] ELSE -((-v[1]) \div v[2])

\* An integer as a number of the arithmetic above.
Num(n) == Q(n, 1)

\* ------------------------------------------------------------------ inputs
\* cv2.selectROI: the rectangle the operator drags; (0,0,0,0) when the
\* selection is cancelled.
CancelledROI == <<0, 0, 0, 0>>
ObjectROIs == {<<50, 50, 20, 20>>, CancelledROI}
CalibROIs == {<<10, 20, 100, 50>>, CancelledROI}

\* Boxes a tracker returns (cv2 returns floats): (10,10,20,20) and
\* (50.5,-0.5,21,121.5).
TrackerBoxes ==
    { <<Num(10), Num(10), Num(20), Num(20)>>,
      <<Q(101, 2), Q(-1, 2), Num(21), Q(243, 2)>> }

\* Lines the operator types at the prompts for the first corner and for the
\* opposite corner.
Inputs0 == {"0", "10", "abc"}
Inputs1 == {"5", "abc"}

\* Keys cv2.waitKey reports; "other" is no key or any unhandled key.
Keys == {"s", "c", "q", "other"}

ValueError == <<"ValueError">>

\* float(text)
PyFloat(text) ==
    CASE text = "0" -> Num(0)
      [] text = "5" -> Num(5)
      [] text = "10" -> Num(10)
      [] OTHER -> ValueError

VARIABLES
    pc,             \* position in the script
    frame,          \* number of frames vs.read() has delivered
    initBox,        \* None, or the last object ROI selected
    trackers,       \* the MultiTracker: sequence of [tracker, box]
    fps,            \* None, or the FPS object <<numFrames>>
    calibrationRef, \* the calibration constants
    report,         \* what this iteration printed: None or <<success, lines>>
    key,            \* the key polled in this iteration
    calBox,         \* (x, y, w, h) of the calibration rectangle
    calib,          \* x_calib0, y_calib0, x_calib1, y_calib1
    nCalibrations,  \* number of 'c' commands so far
    created,        \* number of tracker objects created so far
    error           \* the exception that ended the script, "" if none

vars == <<pc, frame, initBox, trackers, fps, calibrationRef, report, key,
          calBox, calib, nCalibrations, created, error>>

\* --------------------------------------------------------------- calibrateXY
calibrateXY(pt, ref) ==
    LET x == RAdd(RMul(RSub(Num(pt[1]), calibrationRef.refPoint.pixels[1]),
                       calibrationRef.pixelsToTruthRatio[1]),
                  calibrationRef.refPoint.truth[1])
        y == RAdd(RMul(RSub(Num(pt[2]), calibrationRef.refPoint.pixels[2]),
                       calibrationRef.pixelsToTruthRatio[2]),
                  calibrationRef.refPoint.truth[2])
    IN  <<x, y>>

\* ------------------------------------------------------------- frame report
\* (x, y, w, h) = [int(v) for v in box]
IntBox(box) == <<PyInt(box[1]), PyInt(box[2]), PyInt(box[3]), PyInt(box[4])>>

\* boxCenter = (x + w//2, y + h//2)
boxCenterRoundedUp(b) == <<b[1] + ((b[3] + 1) \div 2), b[2] + ((b[4] + 1) \div 2)>>
boxCenter(b) == <<b[1] + (b[3] \div 2), b[2] + (b[4] \div 2)>>

\* realXY of a box
realXY(box) == calibrateXY(boxCenter(IntBox(box)), calibrationRef)

\* print("Object %d, (%.4f, %.4f)" % (i, realXY[0], realXY[1]))
ObjectLine(i, p) == [kind |-> "Object", i |-> i, j |-> i, x |-> p[1], y |-> p[2]]

\* The values of one distance line: realXY - realPoints[j].
DeltaReversed(p, prev) == <<RSub(prev[1], p[1]), RSub(prev[2], p[2])>>
Delta(p, prev) == <<RSub(p[1], prev[1]), RSub(p[2], prev[2])>>

\* print("Distance %d to %d, (%.4f, %.4f)" % (j, i, ...))
DistanceLine(j, i, p, prev) ==
    LET d == Delta(p, prev)
    IN  [kind |-> "Distance", i |-> i, j |-> j, x |-> d[1], y |-> d[2]]

\* range(len(realPoints)-1), as the sequence of the values j takes.
InnerRangeAll(realPoints) == [k \in 1..Len(realPoints) |-> k - 1]
InnerRangeDescending(realPoints) ==
    [k \in 1..(Len(realPoints) - 1) |-> Len(realPoints) - 1 - k]
InnerRange(realPoints) == [k \in 1..(Len(realPoints) - 1) |-> k - 1]

\* The lines printed by the loop body for box i, realPoints already holding
\* realXY of boxes 0..i.
BoxLines(i, realPoints) ==
    LET p == realPoints[i + 1]
        js == InnerRange(realPoints)
    IN  <<ObjectLine(i, p)>> \o
        [k \in 1..Len(js) |-> DistanceLine(js[k], i, p, realPoints[js[k] + 1])]

\* The lines printed by the first n iterations of "for i in range(len(boxes))".
RECURSIVE PrintedLines(_, _)
PrintedLines(boxes, n) ==
    IF n = 0 THEN <<>>
    ELSE PrintedLines(boxes, n - 1) \o
         BoxLines(n - 1, [k \in 1..n |-> realXY(boxes[k])])

\* ------------------------------------------------------------- MultiTracker
\* trackers.add(tracker, frame, initBox): the tracker and its box are
\* appended, whatever the tracker's init returns.
TrackersAddFirst(ts, tracker, box) ==
    <<[tracker |-> tracker, box |-> box]>> \o ts
TrackersAddNothing(ts, tracker, box) == ts
TrackersAdd(ts, tracker, box) == Append(ts, [tracker |-> tracker, box |-> box])

\* trackers.update(frame): every tracker rewrites its own box, in the order
\* the trackers were added; the results a frame can give.
TrackersUpdateDropLost(ts) ==
    LET all == { [k \in 1..Len(ts) |-> [tracker |-> ts[k].tracker, box |-> nb[k]]] :
                   nb \in [1..Len(ts) -> TrackerBoxes] }
    IN  all \cup { Tail(r) : r \in { q \in all : q # <<>> } }
TrackersUpdate(ts) ==
    { [k \in 1..Len(ts) |-> [tracker |-> ts[k].tracker, box |-> nb[k]]] :
        nb \in [1..Len(ts) -> TrackerBoxes] }

Boxes(ts) == [k \in 1..Len(ts) |-> ts[k].box]

\* What the tracking branch prints for a frame: the lines of the boxes, and
\* the success flag shown with the frame.
FrameReportOnSuccess(success, ts) ==
    <<success, IF success THEN PrintedLines(Boxes(ts), Len(ts)) ELSE <<>>>>
FrameReport(success, ts) == <<success, PrintedLines(Boxes(ts), Len(ts))>>

\* ----------------------------------------------------------------- initial
InitZeroRatio ==
    /\ pc = "read"
    /\ frame = 0
    /\ initBox = None
    /\ trackers = <<>>
    /\ fps = None
    /\ calibrationRef = [refPoint |-> [pixels |-> <<Num(0), Num(0)>>,
                                      truth |-> <<Num(0), Num(0)>>],
                         pixelsToTruthRatio |-> <<Num(0), Num(0)>>]
    /\ report = None
    /\ key = "unset"
    /\ calBox = Unset
    /\ calib = [x0 |-> Unset, y0 |-> Unset, x1 |-> Unset, y1 |-> Unset]
    /\ nCalibrations = 0
    /\ created = 0
    /\ error = ""
Init ==
    /\ pc = "read"
    /\ frame = 0
    /\ initBox = None
    /\ trackers = <<>>
    /\ fps = None
    /\ calibrationRef = [refPoint |-> [pixels |-> <<Num(0), Num(0)>>,
                                      truth |-> <<Num(0), Num(0)>>],
                         pixelsToTruthRatio |-> <<Num(1), Num(1)>>]
    /\ report = None
    /\ key = "unset"
    /\ calBox = Unset
    /\ calib = [x0 |-> Unset, y0 |-> Unset, x1 |-> Unset, y1 |-> Unset]
    /\ nCalibrations = 0
    /\ created = 0
    /\ error = ""

\* ------------------------------------------------------------------ actions
\* Keys the operator may press now: the caps of the model apply here.
KeysNow ==
    { k \in Keys : /\ (k = "s" => Len(trackers) < MaxTracks)
                   /\ (k = "c" => nCalibrations < MaxCalibrations) }

\* vs.read() yields no frame: break, cleanup.
EndOfStreamReporting ==
    /\ pc = "read"
    /\ pc' = "done"
    /\ report' = IF initBox # None
                   THEN <<TRUE, PrintedLines(Boxes(trackers), Len(trackers))>>
                   ELSE None
    /\ UNCHANGED <<frame, initBox, trackers, fps, calibrationRef, key, calBox,
                   calib, nCalibrations, created, error>>
EndOfStream ==
    /\ pc = "read"
    /\ pc' = "done"
    /\ report' = None
    /\ UNCHANGED <<frame, initBox, trackers, fps, calibrationRef, key, calBox,
                   calib, nCalibrations, created, error>>

\* vs.read() yields a frame: track, report, show, poll the key.
ReadFrame ==
    /\ pc = "read"
    /\ frame < MaxFrames
    /\ frame' = frame + 1
    /\ IF initBox # None
         THEN \E ts \in TrackersUpdate(trackers), success \in BOOLEAN :
                /\ trackers' = ts
                /\ report' = FrameReport(success, ts)
                /\ IF fps = None
                     THEN \* fps.update() on None raises AttributeError
                          /\ pc' = "crashed"
                          /\ error' = "AttributeError"
                          /\ UNCHANGED <<fps, key>>
                     ELSE /\ fps' = <<fps[1] + 1>>
                          /\ pc' = "key"
                          /\ \E k \in KeysNow : key' = k
                          /\ UNCHANGED error
         ELSE /\ report' = None
              /\ pc' = "key"
              /\ \E k \in KeysNow : key' = k
              /\ UNCHANGED <<trackers, fps, error>>
    /\ UNCHANGED <<initBox, calibrationRef, calBox, calib, nCalibrations, created>>

\* key == ord('s')
KeySRestartFirstOnly ==
    /\ pc = "key" /\ key = "s"
    /\ \E roi \in ObjectROIs :
         /\ initBox' = roi
         /\ trackers' = TrackersAdd(trackers, created,
                                    <<Num(roi[1]), Num(roi[2]), Num(roi[3]), Num(roi[4])>>)
    /\ created' = created + 1
    /\ fps' = IF Len(trackers) = 0 THEN <<0>> ELSE fps
    /\ pc' = "read"
    /\ UNCHANGED <<frame, calibrationRef, report, key, calBox, calib, nCalibrations,
                   error>>
KeySShowsAtOnce ==
    /\ pc = "key" /\ key = "s"
    /\ \E roi \in ObjectROIs :
         /\ initBox' = roi
         /\ trackers' = TrackersAdd(trackers, created,
                                    <<Num(roi[1]), Num(roi[2]), Num(roi[3]), Num(roi[4])>>)
    /\ created' = created + 1
    /\ fps' = <<0>>
    /\ pc' = "read"
    /\ report' = FrameReport(TRUE, trackers')
    /\ UNCHANGED <<frame, calibrationRef, key, calBox, calib, nCalibrations, error>>
KeySNoFps ==
    /\ pc = "key" /\ key = "s"
    /\ \E roi \in ObjectROIs :
         /\ initBox' = roi
         /\ trackers' = TrackersAdd(trackers, created,
                                    <<Num(roi[1]), Num(roi[2]), Num(roi[3]), Num(roi[4])>>)
    /\ created' = created + 1
    /\ fps' = fps
    /\ pc' = "read"
    /\ UNCHANGED <<frame, calibrationRef, report, key, calBox, calib, nCalibrations,
                   error>>
KeyS ==
    /\ pc = "key" /\ key = "s"
    /\ \E roi \in ObjectROIs :
         /\ initBox' = roi
         /\ trackers' = TrackersAdd(trackers, created,
                                    <<Num(roi[1]), Num(roi[2]), Num(roi[3]), Num(roi[4])>>)
    /\ created' = created + 1
    /\ fps' = <<0>>
    /\ pc' = "read"
    /\ UNCHANGED <<frame, calibrationRef, report, key, calBox, calib, nCalibrations,
                   error>>

\* key == ord('c'): the rectangle is selected
KeyC ==
    /\ pc = "key" /\ key = "c"
    /\ \E roi \in CalibROIs : calBox' = roi
    /\ nCalibrations' = nCalibrations + 1
    /\ pc' = "x0"
    /\ UNCHANGED <<frame, initBox, trackers, fps, calibrationRef, report, key, calib,
                   created, error>>

\* x_calib0 = float(input(...))
PromptX0 ==
    /\ pc = "x0"
    /\ \E text \in Inputs0 :
         IF PyFloat(text) = ValueError
           THEN pc' = "crashed" /\ error' = "ValueError" /\ UNCHANGED calib
           ELSE /\ pc' = "y0"
                /\ calib' = [calib EXCEPT !.x0 = PyFloat(text)]
                /\ UNCHANGED error
    /\ UNCHANGED <<frame, initBox, trackers, fps, calibrationRef, report, key,
                   calBox, nCalibrations, created>>

\* y_calib0 = float(input(...)); the reference point is written
PromptY0 ==
    /\ pc = "y0"
    /\ \E text \in Inputs0 :
         IF PyFloat(text) = ValueError
           THEN /\ pc' = "crashed"
                /\ error' = "ValueError"
                /\ UNCHANGED <<calib, calibrationRef>>
           ELSE /\ pc' = "x1"
                /\ UNCHANGED error
                /\ calib' = [calib EXCEPT !.y0 = PyFloat(text)]
                /\ calibrationRef' =
                     [calibrationRef EXCEPT
                        !.refPoint = [pixels |-> <<Num(calBox[1]), Num(calBox[2])>>,
                                      truth |-> <<calib.x0, PyFloat(text)>>]]
    /\ UNCHANGED <<frame, initBox, trackers, fps, report, key, calBox, nCalibrations, created>>

\* x_calib1 = float(input(...))
PromptX1AbortsToLoop ==
    /\ pc = "x1"
    /\ \E text \in Inputs1 :
         IF PyFloat(text) = ValueError
           THEN pc' = "read" /\ UNCHANGED <<calib, error>>
           ELSE /\ pc' = "y1"
                /\ calib' = [calib EXCEPT !.x1 = PyFloat(text)]
                /\ UNCHANGED error
    /\ UNCHANGED <<frame, initBox, trackers, fps, calibrationRef, report, key,
                   calBox, nCalibrations, created>>
PromptX1 ==
    /\ pc = "x1"
    /\ \E text \in Inputs1 :
         IF PyFloat(text) = ValueError
           THEN pc' = "crashed" /\ error' = "ValueError" /\ UNCHANGED calib
           ELSE /\ pc' = "y1"
                /\ calib' = [calib EXCEPT !.x1 = PyFloat(text)]
                /\ UNCHANGED error
    /\ UNCHANGED <<frame, initBox, trackers, fps, calibrationRef, report, key,
                   calBox, nCalibrations, created>>

\* y_calib1 = float(input(...)); the ratio is written, the FPS counter restarted
PromptY1 ==
    /\ pc = "y1"
    /\ \E text \in Inputs1 :
         IF PyFloat(text) = ValueError
           THEN /\ pc' = "crashed"
                /\ error' = "ValueError"
                /\ UNCHANGED <<calib, calibrationRef, fps>>
           ELSE /\ calib' = [calib EXCEPT !.y1 = PyFloat(text)]
                /\ IF calBox[3] = 0 \/ calBox[4] = 0
                     THEN /\ pc' = "crashed"
                          /\ error' = "ZeroDivisionError"
                          /\ UNCHANGED <<calibrationRef, fps>>
                     ELSE /\ UNCHANGED error
                          /\ calibrationRef' =
                               [calibrationRef EXCEPT
                                  !.pixelsToTruthRatio =
                                     <<RDiv(RSub(calib.x1, calib.x0), Num(calBox[3])),
                                       RDiv(RSub(PyFloat(text), calib.y0), Num(calBox[4]))>>]
                          /\ fps' = <<0>>
                          /\ pc' = "read"
    /\ UNCHANGED <<frame, initBox, trackers, report, key, calBox, nCalibrations, created>>

\* key == ord('q'): break, cleanup
KeyQContinue ==
    /\ pc = "key" /\ key = "q"
    /\ pc' = "read"
    /\ UNCHANGED <<frame, initBox, trackers, fps, calibrationRef, report, key,
                   calBox, calib, nCalibrations, created, error>>
KeyQ ==
    /\ pc = "key" /\ key = "q"
    /\ pc' = "done"
    /\ UNCHANGED <<frame, initBox, trackers, fps, calibrationRef, report, key,
                   calBox, calib, nCalibrations, created, error>>

\* any other key, or none: next iteration
KeyOther ==
    /\ pc = "key" /\ key = "other"
    /\ pc' = "read"
    /\ UNCHANGED <<frame, initBox, trackers, fps, calibrationRef, report, key,
                   calBox, calib, nCalibrations, created, error>>

Next ==
    \/ EndOfStream
    \/ ReadFrame
    \/ KeyS
    \/ KeyC
    \/ PromptX0
    \/ PromptY0
    \/ PromptX1
    \/ PromptY1
    \/ KeyQ
    \/ KeyOther

Spec == Init /\ [][Next]_vars

\* ---------------------------------------------------- Python float (binary64)
\* The same 'c' handler and position computation with Python's float as it
\* is: an IEEE-754 double, every operation rounded to nearest, ties to even.
\* Values here are far from the subnormal and overflow ranges, which are not
\* modelled.

\* A natural number of any size: its digits in base Base, least significant
\* first, without leading zero digits; zero is <<>>.
LimbBits == 15
Base == 2^LimbBits

RECURSIVE BigFromNat(_)
BigFromNat(n) == IF n = 0 THEN <<>> ELSE <<n % Base>> \o BigFromNat(n \div Base)

RECURSIVE BigToNat(_)
BigToNat(b) == IF b = <<>> THEN 0 ELSE b[1] + Base * BigToNat(Tail(b))

RECURSIVE BigNorm(_)
BigNorm(b) ==
    IF b = <<>> THEN <<>>
    ELSE IF b[Len(b)] = 0 THEN BigNorm(SubSeq(b, 1, Len(b) - 1)) ELSE b

RECURSIVE BigAddCarry(_, _, _)
BigAddCarry(a, b, c) ==
    IF a = <<>> /\ b = <<>>
      THEN (IF c = 0 THEN <<>> ELSE <<c>>)
      ELSE LET x == IF a = <<>> THEN 0 ELSE a[1]
               y == IF b = <<>> THEN 0 ELSE b[1]
               t == x + y + c
           IN  <<t % Base>> \o BigAddCarry(IF a = <<>> THEN <<>> ELSE Tail(a),
                                           IF b = <<>> THEN <<>> ELSE Tail(b),
                                           t \div Base)
BigAdd(a, b) == BigAddCarry(a, b, 0)

RECURSIVE BigSubBorrow(_, _, _)
BigSubBorrow(a, b, c) ==
    IF a = <<>>
      THEN <<>>
      ELSE LET y == IF b = <<>> THEN 0 ELSE b[1]
               t == a[1] - y - c
           IN  <<(t + Base) % Base>> \o BigSubBorrow(Tail(a),
                                                     IF b = <<>> THEN <<>> ELSE Tail(b),
                                                     IF t < 0 THEN 1 ELSE 0)
\* a - b, for a >= b
BigSub(a, b) == BigNorm(BigSubBorrow(a, b, 0))

BigLess(a, b) ==
    IF Len(a) # Len(b)
      THEN Len(a) < Len(b)
      ELSE \E i \in 1..Len(a) :
              /\ a[i] < b[i]
              /\ \A j \in (i + 1)..Len(a) : a[j] = b[j]
BigLeq(a, b) == a = b \/ BigLess(a, b)

\* b * k + c for machine integers 0 <= k, c < Base
RECURSIVE BigMulCarry(_, _, _)
BigMulCarry(b, k, c) ==
    IF b = <<>>
      THEN (IF c = 0 THEN <<>> ELSE <<c>>)
      ELSE LET t == b[1] * k + c
           IN  <<t % Base>> \o BigMulCarry(Tail(b), k, t \div Base)
BigMulSmall(b, k) == BigNorm(BigMulCarry(b, k, 0))

\* b * Base^n, b * 2^k
BigShlLimbs(b, n) == IF b = <<>> THEN <<>> ELSE [i \in 1..n |-> 0] \o b
BigShl(b, k) == BigShlLimbs(BigMulSmall(b, 2^(k % LimbBits)), k \div LimbBits)

RECURSIVE BigMul(_, _)
BigMul(a, b) ==
    IF a = <<>> \/ b = <<>>
      THEN <<>>
      ELSE BigAdd(BigMulSmall(b, a[1]), BigShlLimbs(BigMul(Tail(a), b), 1))

\* Long division of the digits a[i], ..., a[1] by the machine integer w,
\* 0 < w <= 2 * Base, r being the remainder so far:
\* <<quotient digits, remainder>>.
RECURSIVE BigDivRem(_, _, _, _)
BigDivRem(a, w, i, r) ==
    IF i = 0
      THEN <<<<>>, r>>
      ELSE LET t == r * Base + a[i]
               rest == BigDivRem(a, w, i - 1, t % w)
           IN  <<Append(rest[1], t \div w), rest[2]>>

\* b \div 2^k and b % 2^k
BigShr(b, k) ==
    LET top == SubSeq(b, (k \div LimbBits) + 1, Len(b))
    IN  BigNorm(BigDivRem(top, 2^(k % LimbBits), Len(top), 0)[1])
BigLow(b, k) == BigSub(b, BigShl(BigShr(b, k), k))

\* The number of binary digits of a machine integer, and of a number.
RECURSIVE NatBits(_)
NatBits(n) == IF n = 0 THEN 0 ELSE 1 + NatBits(n \div 2)
BitLen(b) == IF b = <<>> THEN 0 ELSE LimbBits * (Len(b) - 1) + NatBits(b[Len(b)])

\* The number of trailing zero binary digits of a nonzero number.
RECURSIVE NatLowZeros(_)
NatLowZeros(n) == IF n % 2 = 1 THEN 0 ELSE 1 + NatLowZeros(n \div 2)
RECURSIVE LowZeros(_)
LowZeros(b) == IF b[1] # 0 THEN NatLowZeros(b[1]) ELSE LimbBits + LowZeros(Tail(b))

\* The number of binary digits of a double's significand.
Precision == 53

\* A double: sign s (1 for negative), significand m of exactly Precision
\* binary digits, exponent e; its value is (-1)^s * m * 2^e. Zero is FZero
\* (Python's -0.0 equals 0.0 and adds like it).
FZero == [s |-> 0, m |-> <<>>, e |-> 0]

\* The double nearest to (-1)^s * (b + f) * 2^e, where 0 <= f < 1 and
\* f > 0 exactly if sticky; ties go to the even significand. With sticky,
\* b has more than Precision binary digits.
Round(s, b, sticky, e) ==
    LET L == BitLen(b)
        drop == L - Precision
    IN  IF L = 0 THEN FZero
        ELSE IF L <= Precision
          THEN [s |-> s, m |-> BigShl(b, Precision - L), e |-> e - (Precision - L)]
          ELSE LET kept == BigShr(b, drop)
                   low == BigLow(b, drop)
                   half == BigShl(<<1>>, drop - 1)
                   up == \/ BigLess(half, low)
                         \/ low = half /\ (sticky \/ kept[1] % 2 = 1)
                   m1 == IF up THEN BigAdd(kept, <<1>>) ELSE kept
               IN  IF BitLen(m1) > Precision
                     THEN [s |-> s, m |-> BigShr(m1, 1), e |-> e + drop + 1]
                     ELSE [s |-> s, m |-> m1, e |-> e + drop]

\* The significand of a nonzero double without its trailing zero digits, the
\* exponent raised to match: the same value.
Odd(f) ==
    LET z == LowZeros(f.m)
    IN  [s |-> f.s, m |-> BigShr(f.m, z), e |-> f.e + z]

\* float(n) for a Python int n, and float(input()) when the text typed is the
\* decimal numeral of n.
FromInt(n) == Round(IF n < 0 THEN 1 ELSE 0, BigFromNat(Abs(n)), FALSE, 0)

FNeg(a) == IF a.m = <<>> THEN a ELSE [a EXCEPT !.s = 1 - a.s]

\* a + b
FAdd(a, b) ==
    IF a.m = <<>> THEN b
    ELSE IF b.m = <<>> THEN a
    ELSE LET e == IF a.e < b.e THEN a.e ELSE b.e
             A == BigShl(a.m, a.e - e)
             B == BigShl(b.m, b.e - e)
         IN  IF a.s = b.s THEN Round(a.s, BigAdd(A, B), FALSE, e)
             ELSE IF A = B THEN FZero
             ELSE IF BigLess(B, A) THEN Round(a.s, BigSub(A, B), FALSE, e)
             ELSE Round(b.s, BigSub(B, A), FALSE, e)

\* a - b
FSub(a, b) == FAdd(a, FNeg(b))

\* a * b
FMul(a, b) ==
    IF a.m = <<>> \/ b.m = <<>> THEN FZero
    ELSE LET x == Odd(a)
             y == Odd(b)
             p == IF Len(x.m) <= Len(y.m) THEN BigMul(x.m, y.m) ELSE BigMul(y.m, x.m)
         IN  Round((a.s + b.s) % 2, p, FALSE, x.e + y.e)

\* a / b for b = float(n), n a nonzero Python int: the significand of b
\* without its trailing zeros is a machine integer. The quotient is taken to
\* more than Precision + 1 digits, the remainder telling whether it is exact.
FDiv(a, b) ==
    IF a.m = <<>> THEN FZero
    ELSE LET x == Odd(a)
             y == Odd(b)
             w == BigToNat(y.m)
             k == Precision + 2 + BitLen(y.m)
             n == BigShl(x.m, k)
             d == BigDivRem(n, w, Len(n), 0)
         IN  Round((a.s + b.s) % 2, BigNorm(d[1]), d[2] # 0, x.e - y.e - k)

\* calibrateXY(pt, ref) on doubles: pt and the reference pixel are Python
\* ints, their difference an int converted when multiplied by the ratio.
calibrateXYFloatNoOffset(pt, ref) ==
    <<FAdd(FMul(FromInt(pt[1]), ref.pixelsToTruthRatio[1]), ref.refPoint.truth[1]),
      FAdd(FMul(FromInt(pt[2]), ref.pixelsToTruthRatio[2]), ref.refPoint.truth[2])>>
calibrateXYFloat(pt, ref) ==
    <<FAdd(FMul(FromInt(pt[1] - ref.refPoint.pixels[1]), ref.pixelsToTruthRatio[1]),
           ref.refPoint.truth[1]),
      FAdd(FMul(FromInt(pt[2] - ref.refPoint.pixels[2]), ref.pixelsToTruthRatio[2]),
           ref.refPoint.truth[2])>>

\* Ground-truth values typed at the prompts are the numerals of 0..MaxTruth.
MaxTruth == 10

\* Rectangles selected for the calibration, (x, y, w, h) with w, h > 0.
FloatROIs == {<<0, 0, 100, 50>>, <<10, 20, 50, 49>>}
\* Values typed for the first corner and for the second corner.
FloatInputs0 == {0, 3}
FloatInputs1 == 0..MaxTruth

\* Centres of tracked boxes: the two corners of the calibration rectangle
\* and the point halfway (rounded down) between them.
FloatPoints(box) ==
    {<<box[1], box[2]>>,
     <<box[1] + (box[3] \div 2), box[2] + (box[4] \div 2)>>,
     <<box[1] + box[3], box[2] + box[4]>>}

\* The loop has polled 'c'; no object is tracked yet.
FloatInit ==
    /\ pc = "key"
    /\ key = "c"
    /\ frame = 1
    /\ initBox = None
    /\ trackers = <<>>
    /\ fps = None
    /\ calibrationRef = [refPoint |-> [pixels |-> <<0, 0>>,
                                      truth |-> <<FromInt(0), FromInt(0)>>],
                         pixelsToTruthRatio |-> <<FromInt(1), FromInt(1)>>]
    /\ report = None
    /\ calBox = Unset
    /\ calib = [x0 |-> Unset, y0 |-> Unset, x1 |-> Unset, y1 |-> Unset]
    /\ nCalibrations = 0
    /\ created = 0
    /\ error = ""

\* key == ord('c'), the whole handler, every prompt answered with a numeral.
FloatKeyC ==
    /\ pc = "key" /\ key = "c"
    /\ \E box \in FloatROIs, n0 \in FloatInputs0, n1 \in FloatInputs0,
          n2 \in FloatInputs1, n3 \in FloatInputs1 :
         LET x_calib0 == FromInt(n0)
             y_calib0 == FromInt(n1)
             x_calib1 == FromInt(n2)
             y_calib1 == FromInt(n3)
         IN  /\ calBox' = box
             /\ calib' = [x0 |-> x_calib0, y0 |-> y_calib0,
                          x1 |-> x_calib1, y1 |-> y_calib1]
             /\ calibrationRef' =
                  [refPoint |-> [pixels |-> <<box[1], box[2]>>,
                                 truth |-> <<x_calib0, y_calib0>>],
                   pixelsToTruthRatio |->
                      <<FDiv(FSub(x_calib1, x_calib0), FromInt(box[3])),
                        FDiv(FSub(y_calib1, y_calib0), FromInt(box[4]))>>]
    /\ nCalibrations' = nCalibrations + 1
    /\ fps' = <<0>>
    /\ pc' = "read"
    /\ UNCHANGED <<frame, initBox, trackers, report, key, created, error>>

\* The position computed for a tracked box whose centre is pt, under the
\* calibration just made.
FloatPosition ==
    /\ pc = "read" /\ nCalibrations = 1
    /\ \E pt \in FloatPoints(calBox) :
         report' = <<pt, calibrateXYFloat(pt, calibrationRef)>>
    /\ pc' = "applied"
    /\ UNCHANGED <<frame, initBox, trackers, fps, calibrationRef, key, calBox, calib,
                   nCalibrations, created, error>>

FloatNext == FloatKeyC \/ FloatPosition

FloatSpec == FloatInit /\ [][FloatNext]_vars

\* ============================================================== properties
\* A frame has just been processed in the tracking branch: the report is this
\* iteration's, and trackers and calibrationRef are as the report used them.
AtReport == pc = "key" /\ report # None

ReportLines == IF report = None THEN <<>> ELSE report[2]
IsObject(l) == l.kind = "Object"
IsDistance(l) == l.kind = "Distance"
ObjectLines == SelectSeq(ReportLines, IsObject)
DistanceLines == SelectSeq(ReportLines, IsDistance)

Identity ==
    [refPoint |-> [pixels |-> <<Num(0), Num(0)>>, truth |-> <<Num(0), Num(0)>>],
     pixelsToTruthRatio |-> <<Num(1), Num(1)>>]

\* C1 (as amended): in every report, the delta printed for the pair labelled
\* (j, i), j < i, is per axis the position printed for object i minus the
\* position printed for object j: the later object minus the earlier one.
C1_DeltaLaterMinusEarlier ==
    AtReport =>
        \A d \in 1..Len(DistanceLines) :
            \A a, b \in 1..Len(ObjectLines) :
                LET dl == DistanceLines[d]
                    lo == ObjectLines[a]
                    hi == ObjectLines[b]
                IN  (lo.i = dl.j /\ hi.i = dl.i /\ dl.j < dl.i) =>
                        /\ dl.x = RSub(hi.x, lo.x)
                        /\ dl.y = RSub(hi.y, lo.y)

\* C1 as claimed: the delta for the pair (i, j), i < j, is truth_i - truth_j.
C1_DeltaEarlierMinusLater ==
    AtReport =>
        \A d \in 1..Len(DistanceLines) :
            \A a, b \in 1..Len(ObjectLines) :
                LET dl == DistanceLines[d]
                    lo == ObjectLines[a]
                    hi == ObjectLines[b]
                IN  (lo.i = dl.j /\ hi.i = dl.i /\ dl.j < dl.i) =>
                        /\ dl.x = RSub(lo.x, hi.x)
                        /\ dl.y = RSub(lo.y, hi.y)

\* C1 witness: identity calibration, object 0 at (20,20), object 1 at (60,60),
\* and the pair (0,1) reported as (40,40).
C1_Witness ==
    /\ AtReport
    /\ calibrationRef = Identity
    /\ ReportLines =
         << [kind |-> "Object", i |-> 0, j |-> 0, x |-> Num(20), y |-> Num(20)],
            [kind |-> "Object", i |-> 1, j |-> 1, x |-> Num(60), y |-> Num(60)],
            [kind |-> "Distance", i |-> 1, j |-> 0, x |-> Num(40), y |-> Num(40)] >>

\* C2 (as amended): the distance lines of a report come in ascending order of
\* the larger id, and for one larger id in ascending order of the smaller id:
\* (0,1),(0,2),(1,2),(0,3),(1,3),(2,3),...
C2_OrderByLaterThenEarlier ==
    AtReport =>
        \A d \in 1..(Len(DistanceLines) - 1) :
            LET l == DistanceLines[d]
                m == DistanceLines[d + 1]
            IN  l.i < m.i \/ (l.i = m.i /\ l.j < m.j)

\* C2 as claimed: ascending smaller id, then ascending larger id:
\* (0,1),(0,2),...,(0,n-1),(1,2),...
C2_OrderByEarlierThenLater ==
    AtReport =>
        \A d \in 1..(Len(DistanceLines) - 1) :
            LET l == DistanceLines[d]
                m == DistanceLines[d + 1]
            IN  l.j < m.j \/ (l.j = m.j /\ l.i < m.i)

\* C2 witness: a report of four objects, whose pairs come (0,1),(0,2),(1,2),(0,3),...
C2_Witness ==
    /\ AtReport
    /\ Len(trackers) = 4
    /\ Len(DistanceLines) = 6
    /\ [d \in 1..4 |-> <<DistanceLines[d].j, DistanceLines[d].i>>] =
         << <<0, 1>>, <<0, 2>>, <<1, 2>>, <<0, 3>> >>

\* C3: a report of n tracks holds exactly one distance line per pair of
\* distinct ids, labelled smaller id first: n*(n-1)/2 lines, none for n = 1.
C3_OneLinePerPair ==
    AtReport =>
        LET n == Len(trackers)
            labels == { <<DistanceLines[d].j, DistanceLines[d].i>> :
                          d \in 1..Len(DistanceLines) }
        IN  /\ labels = { <<a, b>> \in (0..(n - 1)) \X (0..(n - 1)) : a < b }
            /\ 2 * Len(DistanceLines) = n * (n - 1)
            /\ (n = 1 => DistanceLines = <<>>)

\* C3 witness: a report of three tracks with its three distance lines.
C3_Witness == AtReport /\ Len(trackers) = 3 /\ Len(DistanceLines) = 3

\* C4: the k-th tracker created is track k for good (the tracker at index k of
\* the MultiTracker is the k-th created, at every moment), and a report has
\* one position line per track, ids 0..n-1 ascending, each computed from the
\* box of the track with that id, whatever the update's success flag.
C4_IdsAreInsertionOrder ==
    /\ Len(trackers) = created
    /\ \A k \in 1..Len(trackers) : trackers[k].tracker = k - 1
    /\ AtReport =>
         /\ Len(ObjectLines) = Len(trackers)
         /\ \A k \in 1..Len(ObjectLines) :
              /\ ObjectLines[k].i = k - 1
              /\ <<ObjectLines[k].x, ObjectLines[k].y>> = realXY(trackers[k].box)

\* C4 witness: three tracks whose boxes are not all alike, reported after an
\* update that failed.
C4_Witness ==
    /\ AtReport
    /\ report[1] = FALSE
    /\ Len(trackers) = 3
    /\ trackers[1].box # trackers[2].box
    /\ Len(ObjectLines) = 3

C6_ReportIffTracking ==
    pc = "key" =>
        /\ (Len(trackers) = 0 => report = None)
        /\ (Len(trackers) >= 1 => report # None /\ Len(ObjectLines) >= 1)

\* C6 witness: a frame reported while tracking, after frames that passed
\* without a report.
C6_Witness == pc = "key" /\ frame >= 3 /\ Len(trackers) = 1 /\ report # None

\* C7: no step leaves Tracking, and no step lowers the number of tracks.
C7_NeverBackToIdle ==
    [][ /\ (initBox # None => initBox' # None)
        /\ (Len(trackers) >= 1 => Len(trackers') >= 1)
        /\ Len(trackers') >= Len(trackers) ]_vars

\* C7 witness: two tracks still there after a failed update, a calibration
\* and a cancelled selection.
C7_Witness ==
    /\ pc = "key"
    /\ Len(trackers) = 2
    /\ report # None /\ report[1] = FALSE
    /\ nCalibrations >= 1
    /\ initBox = CancelledROI

\* C8 as claimed: an Add region command takes the session from Idle to
\* Tracking only with a rectangle of non-zero area.
C8_DegenerateAddStaysIdle ==
    [][ (pc = "key" /\ key = "s" /\ initBox = None /\ initBox' # None) =>
            (initBox'[3] # 0 /\ initBox'[4] # 0) ]_vars

\* C9 (as amended): in the iteration in which Quit is issued the loop ends
\* and no further frame is acquired; that iteration's report has already
\* been printed exactly when the session is in Tracking.
C9_QuitEndsLoopAfterReport ==
    /\ key = "q" => pc \in {"key", "done"}
    /\ (key = "q" /\ pc = "done") => (report = None <=> Len(trackers) = 0)

\* C9 as claimed: no report is produced in the iteration of the Quit.
C9_QuitIterationHasNoReport ==
    (key = "q" /\ pc = "done") => report = None

\* C9 witness: the loop ended by Quit in Tracking, that iteration's report
\* printed.
C9_Witness == key = "q" /\ pc = "done" /\ Len(trackers) >= 1 /\ report # None

\* How far the script has run: the frames read so far, then the position
\* within the iteration (key poll, the four prompts, back at the loop head,
\* ended).
Progress ==
    8 * frame +
    (CASE pc = "key" -> 1
       [] pc = "x0" -> 2
       [] pc = "y0" -> 3
       [] pc = "x1" -> 4
       [] pc = "y1" -> 5
       [] pc = "read" -> 6
       [] OTHER -> 7)

\* Some action of the loop can be taken.
CanStep ==
    \/ ENABLED EndOfStream
    \/ ENABLED KeyS \/ ENABLED KeyC \/ ENABLED KeyQ \/ ENABLED KeyOther
    \/ ENABLED PromptX0 \/ ENABLED PromptY0 \/ ENABLED PromptX1 \/ ENABLED PromptY1

\* C10: the step taken when vs.read() yields no frame ends the loop normally,
\* prints nothing and handles no command; and every run over the finite
\* stream ends: the script can always take a step until it has ended, and
\* every step takes it further along a bounded course.
C10_EndOfStreamEndsLoop ==
    /\ [][ (pc = "read" /\ frame' = frame) =>
             /\ pc' = "done"
             /\ report' = None
             /\ UNCHANGED <<initBox, trackers, fps, calibrationRef, key,
                            nCalibrations, created>> ]_vars
    /\ [][ Progress' > Progress ]_vars
    /\ [](Progress <= 8 * MaxFrames + 7)
    /\ [](pc \notin {"done", "crashed"} => CanStep)

\* C10 witness: the loop ended by the end of the stream while tracking.
C10_Witness == pc = "done" /\ key # "q" /\ Len(trackers) >= 1 /\ report = None

\* C11 witness helper and the prompts of the 'c' handler.
Prompts == {"x0", "y0", "x1", "y1"}

\* C11: a frame whose update reports failure still ends at the key poll with
\* no exception, the same trackers and one position line per track; the loop
\* then goes on unless Quit is pressed, and the next frame is reported with
\* the same tracks.
C11_FailureIsNotFatal ==
    /\ [][ (pc = "read" /\ frame' = frame + 1 /\ initBox # None /\ report'[1] = FALSE) =>
             /\ pc' = "key"
             /\ error' = ""
             /\ initBox' = initBox
             /\ Len(trackers') = Len(trackers)
             /\ \A k \in 1..Len(trackers) : trackers'[k].tracker = trackers[k].tracker
             /\ Len(ObjectLines') = Len(trackers) ]_vars
    /\ [][ (pc = "key" /\ report # None /\ report[1] = FALSE /\ key # "q") =>
             pc' \in {"read", "x0"} ]_vars
    /\ [][ (pc = "read" /\ report # None /\ report[1] = FALSE /\ key # "s"
              /\ frame' = frame + 1) =>
             (pc' = "key" /\ Len(ObjectLines') = Len(ObjectLines)) ]_vars

\* C11 witness: a failed update of three tracks, reported with three
\* positions, in a session that has already processed an earlier frame.
C11_Witness ==
    /\ AtReport
    /\ report[1] = FALSE
    /\ Len(trackers) = 3
    /\ Len(ObjectLines) = 3
    /\ fps[1] >= 2

\* calibrationRef is what one Calibrate command writes from its rectangle
\* calBox and its four values: refPixel = (x, y), refTruth = (x0, y0),
\* scale * (w, h) = (x1 - x0, y1 - y0).
Configured ==
    /\ calBox # Unset /\ calBox[3] # 0 /\ calBox[4] # 0
    /\ calib.x0 # Unset /\ calib.y0 # Unset /\ calib.x1 # Unset /\ calib.y1 # Unset
    /\ calibrationRef.refPoint.pixels = <<Num(calBox[1]), Num(calBox[2])>>
    /\ calibrationRef.refPoint.truth = <<calib.x0, calib.y0>>
    /\ RMul(calibrationRef.pixelsToTruthRatio[1], Num(calBox[3])) = RSub(calib.x1, calib.x0)
    /\ RMul(calibrationRef.pixelsToTruthRatio[2], Num(calBox[4])) = RSub(calib.y1, calib.y0)

\* C12: when a Calibrate command has just completed (back at the loop head,
\* the key still 'c'), the calibration is exactly the one its rectangle and
\* four values give, nothing of the previous calibration remaining.
C12_CalibrateReplacesAll == (pc = "read" /\ key = "c") => Configured

\* C12 witness: rectangle (10,20,100,50) with values 10, 0, 5, 5 gives
\* refPixel (10,20), refTruth (10,0), scale (-1/20, 1/10).
C12_Witness ==
    /\ pc = "read" /\ key = "c"
    /\ calBox = <<10, 20, 100, 50>>
    /\ calib = [x0 |-> Num(10), y0 |-> Num(0), x1 |-> Num(5), y1 |-> Num(5)]
    /\ calibrationRef = [refPoint |-> [pixels |-> <<Num(10), Num(20)>>,
                                      truth |-> <<Num(10), Num(0)>>],
                         pixelsToTruthRatio |-> <<Q(-1, 20), Q(1, 10)>>]

C15_BadInputKeepsSession ==
    [][ (pc \in Prompts) => (error' # "ValueError" /\ trackers' = trackers) ]_vars

\* C16 as claimed: a calibration rectangle of zero width or height is
\* rejected: no division by zero ends the script, and the command leaves the
\* calibration as it was.
C16_DegenerateRectangleRejected ==
    /\ error # "ZeroDivisionError"
    /\ (nCalibrations = 1 /\ (calBox[3] = 0 \/ calBox[4] = 0)) =>
           calibrationRef = Identity

\* A step of the loop that is neither the 's' handler nor the completion of
\* a calibration leaves the FPS counter alone or, processing a frame, counts
\* that frame.
FpsNotRestarted ==
    \/ fps' = fps
    \/ (pc = "read" /\ fps # None /\ fps' = <<fps[1] + 1>>)

\* C17 (as amended): every Add region command restarts the FPS measurement,
\* the first as well as the later ones, and so does every completed
\* Calibrate command; no other step restarts it.
C17_RestartOnEveryAdd ==
    [][ /\ (pc = "key" /\ key = "s") => fps' = <<0>>
        /\ (pc = "y1" /\ pc' = "read") => fps' = <<0>>
        /\ (~(pc = "key" /\ key = "s") /\ ~(pc = "y1" /\ pc' = "read")) =>
               FpsNotRestarted ]_vars

\* C17 as claimed: an Add region command restarts the measurement exactly
\* when it adds the first track.
C17_RestartOnFirstAddOnly ==
    [][ /\ (pc = "key" /\ key = "s") =>
               (IF Len(trackers) = 0 THEN fps' = <<0>> ELSE fps' = fps)
        /\ (pc = "y1" /\ pc' = "read") => fps' = <<0>> ]_vars

\* C17 witness: the measurement restarted by the Add region command that
\* added the third track.
C17_Witness ==
    pc = "read" /\ key = "s" /\ Len(trackers) = 3 /\ fps = <<0>> /\ report # None

\* C18: a handler never touches the report of its iteration; the key is
\* polled once per frame, after the report, and one handler runs; the report
\* of a frame has a line for each track there was when the frame was read,
\* computed under the calibration there was then.
C18_CommandsActFromNextFrame ==
    [][ /\ pc # "read" => report' = report
        /\ pc' = "key" => (pc = "read" /\ frame' = frame + 1)
        /\ pc = "key" => pc' \in {"read", "x0", "done"}
        /\ pc \in Prompts => pc' \in Prompts \cup {"read", "crashed"}
        /\ (pc = "read" /\ frame' = frame + 1 /\ initBox # None) =>
              /\ calibrationRef' = calibrationRef
              /\ Len(ObjectLines') = Len(trackers)
              /\ \A k \in 1..Len(trackers) :
                    <<ObjectLines'[k].x, ObjectLines'[k].y>> = realXY(trackers'[k].box)
      ]_vars

\* C18 witness: a second track added during a frame whose report shows one
\* track only.
C18_Witness ==
    /\ pc = "read" /\ key = "s"
    /\ Len(trackers) = 2
    /\ Len(ObjectLines) = 1

\* C19: at the head of an iteration, once a track has been added the FPS
\* counter is there, and no frame ever fails on a missing counter.
C19_FpsThereWhenTracking ==
    /\ (pc = "read" /\ initBox # None) => fps # None
    /\ error # "AttributeError"

\* C19 witness: a frame about to be processed in Tracking, the track added
\* with no calibration before it.
C19_Witness ==
    pc = "read" /\ initBox # None /\ nCalibrations = 0 /\ fps = <<0>> /\ frame < MaxFrames

\* C20: whenever the loop is at its head or has just reported a frame, the
\* calibration is a whole one: the identity, or the one a single completed
\* Calibrate command wrote.
C20_NoReportFromHalfCalibration ==
    pc \in {"read", "key"} =>
        IF nCalibrations = 0 THEN calibrationRef = Identity ELSE Configured

\* C20 witness: a frame reported in Tracking under a completed calibration.
C20_Witness ==
    AtReport /\ nCalibrations = 1 /\ calibrationRef # Identity /\ Len(ObjectLines) >= 1

\* ------------------------------------------------------- round trip (C13)
\* The integer a double holds, for a double that holds one.
IntOf(f) ==
    IF f.m = <<>> THEN 0
    ELSE LET o == Odd(f)
         IN  (IF o.s = 1 THEN -1 ELSE 1) * BigToNat(BigShl(o.m, o.e))

\* The two corners of the calibration rectangle and their ground truth.
CornerA == <<calBox[1], calBox[2]>>
CornerB == <<calBox[1] + calBox[3], calBox[2] + calBox[4]>>
TruthA == <<calib.x0, calib.y0>>
TruthB == <<calib.x1, calib.y1>>

\* On one axis, the position reported for a pixel m of the w pixels from A
\* to B is the exact value a0 + (m / w) * (b0 - a0) up to the rounding of
\* the four operations: the error is at most 2^-(Precision - 3) times
\* |a0| + |b0|. Both sides are multiplied by w and by a power of two that
\* makes them integers.
WithinRounding(axis) ==
    LET w == calBox[2 + axis]
        m == report[1][axis] - calBox[axis]
        a0 == IntOf(TruthA[axis])
        b0 == IntOf(TruthB[axis])
        exact == w * a0 + m * (b0 - a0)
        r == report[2][axis]
        sh == IF r.e < 0 THEN -r.e ELSE 0
        R == BigMul(BigFromNat(w), BigShl(r.m, r.e + sh))
        E == BigShl(BigFromNat(Abs(exact)), sh)
        sameSign == (r.s = 1) = (exact < 0) \/ R = <<>> \/ E = <<>>
        diff == IF ~sameSign THEN BigAdd(R, E)
                ELSE IF BigLess(R, E) THEN BigSub(E, R) ELSE BigSub(R, E)
    IN  BigLeq(BigShl(diff, Precision - 3),
               BigShl(BigFromNat(w * (Abs(a0) + Abs(b0))), sh))

\* A number from its hexadecimal digits, most significant first.
RECURSIVE BigFromHex(_)
BigFromHex(h) ==
    IF h = <<>> THEN <<>>
    ELSE BigAdd(BigMulSmall(BigFromHex(SubSeq(h, 1, Len(h) - 1)), 16),
                BigFromNat(h[Len(h)]))

\* The double nearest to 0.1, 0x1999999999999A * 2^-56, and 2.5 = 5 * 2^-1.
Tenth ==
    [s |-> 0, m |-> BigFromHex(<<1, 9, 9, 9, 9, 9, 9, 9, 9, 9, 9, 9, 9, 10>>), e |-> -56]
TwoAndHalf == Round(0, BigFromNat(5), FALSE, -1)

\* C13 (as amended): after a completed calibration with a non-degenerate
\* rectangle, corner A maps to A' exactly; corner B maps to B', and a point a
\* fraction of the way from A to B maps to that fraction of the way from A'
\* to B', up to floating-point rounding; in the example A=(0,0), B=(100,50),
\* A'=(0,0), B'=(10,5) the scale is (0.1, 0.1) and (50,25) maps to
\* (5.0, 2.5) exactly.
C13_RoundTripUpToRounding ==
    pc = "applied" =>
       /\ report[1] = CornerA => report[2] = TruthA
       /\ WithinRounding(1) /\ WithinRounding(2)
       /\ (calBox = <<0, 0, 100, 50>> /\ TruthA = <<FromInt(0), FromInt(0)>>
             /\ TruthB = <<FromInt(10), FromInt(5)>>) =>
            /\ calibrationRef.pixelsToTruthRatio = <<Tenth, Tenth>>
            /\ report[1] = <<50, 25>> => report[2] = <<FromInt(5), TwoAndHalf>>

\* C13 as claimed: corner A maps to A' and corner B maps to B', exactly.
C13_RoundTripExact ==
    pc = "applied" =>
       /\ report[1] = CornerA => report[2] = TruthA
       /\ report[1] = CornerB => report[2] = TruthB

\* C13 witness: the example of the claim, (50,25) reported as (5.0, 2.5).
C13_Witness ==
    /\ pc = "applied"
    /\ calBox = <<0, 0, 100, 50>>
    /\ TruthA = <<FromInt(0), FromInt(0)>> /\ TruthB = <<FromInt(10), FromInt(5)>>
    /\ report = <<<<50, 25>>, <<FromInt(5), TwoAndHalf>>>>

====
